---- MODULE Spec2Model ----
(***************************************************************************)
(* API Gerenciador de Tarefas e Projetos: the Flask handlers of API/app.py *)
(* over the SQLite tables of "Banco de Dados/banco_projetos.py", with the   *)
(* marshmallow schemas of "Validações e Modelagem/schemas.py".             *)
(*                                                                         *)
(* One action per route handler.  A handler runs to completion in one     *)
(* step: validation, the SQL statement, the response, the log entry and   *)
(* the fate of its connection.                                            *)
(***************************************************************************)
EXTENDS Integers, Sequences, FiniteSets, TLC

VARIABLES
    db,              \* the rows of the three tables of database.db
    sqlite_sequence, \* per table, the largest id AUTOINCREMENT has handed out
    req,             \* the request served last
    resp,            \* its response
    logged,          \* what serving it wrote to api.log
    conn,            \* what became of its connection
    threads,         \* per thread of the server, the request it is serving
    locked,          \* the thread whose connection holds the write lock, or 0
    commits,         \* the threads that committed, in the order of the commits
    repetida         \* history: it repeats the request served before it

vars == <<db, sqlite_sequence, req, resp, logged, conn, repetida,
          threads, locked, commits>>

(***************************************************************************)
(* Bounds of the model.                                                    *)
(***************************************************************************)
\* rows the store ever inserts, over the three tables (caps the
\* AUTOINCREMENT counters); also the range of the ids of the request paths
MaxRows == 2

(***************************************************************************)
(* Values.  A JSON value of a request body, a Python value after           *)
(* deserialization and an SQL value of a column all have the same shape:   *)
(* t is the type tag, s the text (of a str), n the number (of an int, or   *)
(* of a date as yyyymmdd).                                                 *)
(***************************************************************************)
StrV(x) == [t |-> "str", s |-> x, n |-> 0]
IntV(k) == [t |-> "int", s |-> "", n |-> k]
DateV(y, m, d) == [t |-> "date", s |-> "", n |-> y * 10000 + m * 100 + d]

\* a string one character longer than the longest nome/titulo the schemas accept
Long256 == "aaaaaaaaaaaaaaaaaaaaaaaaaaaaaaaaaaaaaaaaaaaaaaaaaaaaaaaaaaaaaaaaaaaaaaaaaaaaaaaaaaaaaaaaaaaaaaaaaaaaaaaaaaaaaaaaaaaaaaaaaaaaaaaaaaaaaaaaaaaaaaaaaaaaaaaaaaaaaaaaaaaaaaaaaaaaaaaaaaaaaaaaaaaaaaaaaaaaaaaaaaaaaaaaaaaaaaaaaaaaaaaaaaaaaaaaaaaaaaaaaaaaaaaaaaaaaaaaaaaaaaaaaaaa"

\* The characters of the strings that the model parses (TLC cannot index a
\* string): the dates, the e-mail addresses and the numeric strings.
Chars(x) ==
    CASE x = "2024-01-05"   -> <<"2","0","2","4","-","0","1","-","0","5">>
      [] x = "2024-02-01"   -> <<"2","0","2","4","-","0","2","-","0","1">>
      [] x = "2024-02-30"   -> <<"2","0","2","4","-","0","2","-","3","0">>
      [] x = "05/01/2024"   -> <<"0","5","/","0","1","/","2","0","2","4">>
      [] x = "a@b.co"       -> <<"a","@","b",".","c","o">>
      [] x = "c@d.io"       -> <<"c","@","d",".","i","o">>
      [] x = "2024-03-01"   -> <<"2","0","2","4","-","0","3","-","0","1">>
      [] x = "a@b"          -> <<"a","@","b">>
      [] x = "not-an-email" -> <<"n","o","t","-","a","n","-","e","m","a","i","l">>
      [] x = "1"            -> <<"1">>
      [] x = "x"            -> <<"x">>
      [] OTHER              -> <<>>

KnownStrings ==
    {"2024-01-05", "2024-02-01", "2024-02-30", "05/01/2024",
     "2024-03-01", "a@b.co", "c@d.io", "a@b", "not-an-email", "1", "x"}

StrOf(cs) == CHOOSE x \in KnownStrings : Chars(x) = cs

Digits == <<"0", "1", "2", "3", "4", "5", "6", "7", "8", "9">>
Letters == {"a", "b", "c", "d", "e", "i", "l", "m", "n", "o", "t", "x"}

IsDigit(c) == \E i \in 1..10 : Digits[i] = c
DigitVal(c) == (CHOOSE i \in 1..10 : Digits[i] = c) - 1
AllDigits(cs) == Len(cs) > 0 /\ \A i \in 1..Len(cs) : IsDigit(cs[i])

RECURSIVE ToInt(_)
ToInt(cs) ==
    IF Len(cs) = 0 THEN 0
    ELSE 10 * ToInt(SubSeq(cs, 1, Len(cs) - 1)) + DigitVal(cs[Len(cs)])

\* str.split(sep)
RECURSIVE Split(_, _)
Split(cs, sep) ==
    IF \A i \in 1..Len(cs) : cs[i] # sep THEN <<cs>>
    ELSE LET i == CHOOSE j \in 1..Len(cs) :
                      cs[j] = sep /\ \A k \in 1..(j - 1) : cs[k] # sep
         IN  <<SubSeq(cs, 1, i - 1)>> \o Split(SubSeq(cs, i + 1, Len(cs)), sep)

(***************************************************************************)
(* marshmallow: the field types and validators the schemas use.            *)
(***************************************************************************)
\* the bounds of validate.Length in the schemas
NomeMinLen == 1
NomeMaxLen == 255
SenhaMinLen == 6

Ok(v) == [ok |-> TRUE, val |-> v, err |-> ""]
Fail(msg) == [ok |-> FALSE, val |-> StrV(""), err |-> msg]

\* fields.String: only a str is a valid string
String_deserialize(v) ==
    IF v.t = "str" THEN Ok(v) ELSE Fail("Not a valid string.")

\* fields.Integer (strict=False): an int, or anything int() accepts
Integer_deserialize(v) ==
    IF v.t = "int" THEN Ok(v)
    ELSE IF v.t = "str" /\ AllDigits(Chars(v.s)) THEN Ok(IntV(ToInt(Chars(v.s))))
    ELSE Fail("Not a valid integer.")

IsLeap(y) == (y % 4 = 0 /\ y % 100 # 0) \/ y % 400 = 0
DaysInMonth(y, m) ==
    IF m = 2 THEN (IF IsLeap(y) THEN 29 ELSE 28)
    ELSE IF m \in {4, 6, 9, 11} THEN 30 ELSE 31

\* fields.Date: yyyy-m[m]-d[d] (the ISO date grammar of marshmallow 3, the
\* release line whose load raises ValidationError and that was current when
\* the schemas were written) that names a day of the calendar
Date_deserialize(v) ==
    IF v.t # "str" THEN Fail("Not a valid date.")
    ELSE LET p == Split(Chars(v.s), "-") IN
         IF /\ Len(p) = 3
            /\ \A i \in 1..3 : AllDigits(p[i])
            /\ Len(p[1]) = 4 /\ Len(p[2]) \in 1..2 /\ Len(p[3]) \in 1..2
            /\ ToInt(p[2]) \in 1..12
            /\ ToInt(p[1]) >= 1
            /\ ToInt(p[3]) \in 1..DaysInMonth(ToInt(p[1]), ToInt(p[2]))
         THEN Ok(DateV(ToInt(p[1]), ToInt(p[2]), ToInt(p[3])))
         ELSE Fail("Not a valid date.")

IsAlnum(c) == IsDigit(c) \/ c \in Letters
\* a dot-atom: atoms of letters, digits and "-", separated by single dots
IsDotAtom(cs) ==
    LET p == Split(cs, ".") IN
    \A i \in 1..Len(p) :
        Len(p[i]) > 0 /\ \A j \in 1..Len(p[i]) : IsAlnum(p[i][j]) \/ p[i][j] = "-"
\* a host name: labels that neither start nor end with "-", the last of
\* them two characters or more, at least two labels
IsDomain(cs) ==
    LET p == Split(cs, ".") IN
    /\ Len(p) >= 2
    /\ \A i \in 1..Len(p) :
        /\ Len(p[i]) > 0
        /\ \A j \in 1..Len(p[i]) : IsAlnum(p[i][j]) \/ p[i][j] = "-"
        /\ IsAlnum(p[i][1]) /\ IsAlnum(p[i][Len(p[i])])
    /\ Len(p[Len(p)]) >= 2

\* validate.Email: user part and domain part around the last "@"
Email_valid(x) ==
    LET cs == Chars(x)
        at == {i \in 1..Len(cs) : cs[i] = "@"}
    IN  /\ at # {}
        /\ LET k == CHOOSE i \in at : \A j \in at : j <= i IN
           /\ IsDotAtom(SubSeq(cs, 1, k - 1))
           /\ \A j \in 1..(k - 1) : cs[j] # "@"
           /\ IsDomain(SubSeq(cs, k + 1, Len(cs)))

NoValidate == [kind |-> "none", min |-> 0, max |-> 0, choices |-> {}]
Length(lo, hi) == [kind |-> "Length", min |-> lo, max |-> hi, choices |-> {}]
OneOf(cs) == [kind |-> "OneOf", min |-> 0, max |-> 0, choices |-> cs]
NoMax == -1

\* the message of a validator that rejects the deserialized value, "" when
\* it accepts it
Validate_message(val, v) ==
    CASE val.kind = "Length" ->
            IF val.max = NoMax
            THEN (IF Len(v.s) < val.min THEN "Shorter than minimum length." ELSE "")
            ELSE (IF Len(v.s) < val.min \/ Len(v.s) > val.max
                  THEN "Length must be between min and max." ELSE "")
      [] val.kind = "OneOf" ->
            IF v.s \in val.choices THEN "" ELSE "Must be one of the choices."
      [] OTHER -> ""

(***************************************************************************)
(* schemas.py: the three schemas, their fields in the order declared.      *)
(***************************************************************************)
Campo(c, tipo, required, dump_only, validar) ==
    [campo |-> c, tipo |-> tipo, required |-> required,
     dump_only |-> dump_only, validar |-> validar]

\* mutant of StatusChoices: the values are matched without regard to case
StatusChoices_any_case ==
    {"Pendente", "Em andamento", "Concluída", "pendente", "em andamento", "concluída"}

\* validate.OneOf([...]) of status and of prioridade
StatusChoices == {"Pendente", "Em andamento", "Concluída"}
PrioridadeChoices == {"Baixa", "Média", "Alta"}

ProjetoSchema ==
    << Campo("id", "Integer", FALSE, TRUE, NoValidate),
       Campo("nome", "String", TRUE, FALSE, Length(NomeMinLen, NomeMaxLen)),
       Campo("descricao", "String", FALSE, FALSE, NoValidate),
       Campo("data_inicio", "Date", FALSE, FALSE, NoValidate),
       Campo("data_fim", "Date", FALSE, FALSE, NoValidate) >>

TarefaSchema ==
    << Campo("id", "Integer", FALSE, TRUE, NoValidate),
       Campo("titulo", "String", TRUE, FALSE, Length(NomeMinLen, NomeMaxLen)),
       Campo("descricao", "String", FALSE, FALSE, NoValidate),
       Campo("status", "String", FALSE, FALSE, OneOf(StatusChoices)),
       Campo("prioridade", "String", FALSE, FALSE, OneOf(PrioridadeChoices)),
       Campo("data_vencimento", "Date", FALSE, FALSE, NoValidate),
       Campo("projeto_id", "Integer", FALSE, FALSE, NoValidate),
       Campo("responsavel_id", "Integer", FALSE, FALSE, NoValidate) >>

UsuarioSchema ==
    << Campo("id", "Integer", FALSE, TRUE, NoValidate),
       Campo("nome", "String", TRUE, FALSE, Length(NomeMinLen, NomeMaxLen)),
       Campo("email", "Email", TRUE, FALSE, NoValidate),
       Campo("senha", "String", TRUE, FALSE, Length(SenhaMinLen, NoMax)) >>

(***************************************************************************)
(* Schema.load: every declared field is deserialized and validated, every  *)
(* failing field gets an entry of the error map, and a key of the input    *)
(* that is no loadable field is an error too (Meta.unknown is RAISE        *)
(* unless a schema says otherwise, and none does).                         *)
(***************************************************************************)
Deserialize(f, v) ==
    CASE f.tipo = "String"  -> String_deserialize(v)
      [] f.tipo = "Integer" -> Integer_deserialize(v)
      [] f.tipo = "Date"    -> Date_deserialize(v)
      [] f.tipo = "Email"   ->
            LET r == String_deserialize(v) IN
            IF r.ok /\ ~Email_valid(v.s)
            THEN Fail("Not a valid email address.") ELSE r

\* mutant of IsMissingRequired: required=True is not honoured
IsMissingRequired_never(f, data) == FALSE

\* a required field that the input lacks
IsMissingRequired(f, data) == f.required /\ f.campo \notin DOMAIN data

\* the messages of one field, <<>> when it is absent and optional, or fine
FieldMessages(f, data) ==
    IF f.campo \notin DOMAIN data
    THEN (IF IsMissingRequired(f, data)
          THEN <<"Missing data for required field.">> ELSE <<>>)
    ELSE LET r == Deserialize(f, data[f.campo]) IN
         IF ~r.ok THEN <<r.err>>
         ELSE LET m == Validate_message(f.validar, r.val) IN
              IF m = "" THEN <<>> ELSE <<m>>

LoadFields(schema) == {i \in 1..Len(schema) : ~schema[i].dump_only}
FieldNames(schema, idx) == {schema[i].campo : i \in idx}
FieldOf(schema, c) == schema[CHOOSE i \in 1..Len(schema) : schema[i].campo = c]

\* mutant of UnknownKeys: a dump_only field of the input is skipped silently
UnknownKeys_dump_only_ignored(schema, data) ==
    DOMAIN data \ FieldNames(schema, 1..Len(schema))

\* the keys of the input that name no loadable field: dump_only fields are
\* not loadable
UnknownKeys(schema, data) == DOMAIN data \ FieldNames(schema, LoadFields(schema))

FailingFields(schema, data) ==
    {i \in LoadFields(schema) : FieldMessages(schema[i], data) # <<>>}

\* mutant of ErrorFields: validation stops at the first failing field
ErrorFields_first_only(schema, data) ==
    LET bad == FailingFields(schema, data) IN
    IF bad = {} THEN UnknownKeys(schema, data)
    ELSE {schema[CHOOSE i \in bad : \A j \in bad : i <= j].campo}

\* the keys of the error map: every failing field and every unknown key
ErrorFields(schema, data) ==
    FieldNames(schema, FailingFields(schema, data)) \cup UnknownKeys(schema, data)

\* err.messages of the ValidationError; the empty map when load succeeds
Messages(schema, data) ==
    [c \in ErrorFields(schema, data) |->
        IF c \in UnknownKeys(schema, data) THEN <<"Unknown field.">>
        ELSE FieldMessages(FieldOf(schema, c), data)]

NoErrors == [c \in {} |-> <<>>]

\* what load returns: the deserialized value of each field the input has;
\* a field the input lacks has no key in the result
Load(schema, data) ==
    [c \in DOMAIN data \cap FieldNames(schema, LoadFields(schema)) |->
        Deserialize(FieldOf(schema, c), data[c]).val]

(***************************************************************************)
(* SQLite: the tables of banco_projetos.py and the statements of app.py.   *)
(* A table is a function from the ids of its rows to the rows; a row is a  *)
(* function from the columns other than id to their values.                *)
(***************************************************************************)
TB_PROJETOS == "TB_PROJETOS"
TB_TAREFAS == "TB_TAREFAS"
TB_USUARIOS == "TB_USUARIOS"
Tabelas == {TB_PROJETOS, TB_TAREFAS, TB_USUARIOS}

\* the columns that the INSERT and UPDATE statements of each table bind
Colunas(tabela) ==
    CASE tabela = TB_PROJETOS -> {"nome", "descricao", "data_inicio", "data_fim"}
      [] tabela = TB_TAREFAS  -> {"titulo", "descricao", "status", "prioridade",
                                  "data_vencimento", "projeto_id", "responsavel_id"}
      [] tabela = TB_USUARIOS -> {"nome", "email", "senha"}

\* the columns declared UNIQUE (id apart)
UniqueCols(tabela) == IF tabela = TB_USUARIOS THEN {"email"} ELSE {}

RECURSIVE Pad(_, _)
Pad(k, w) == IF w = 0 THEN <<>> ELSE Pad(k \div 10, w - 1) \o <<Digits[(k % 10) + 1]>>

\* datetime.date.isoformat
Isoformat(n) ==
    StrOf(Pad(n \div 10000, 4) \o <<"-">> \o Pad((n \div 100) % 100, 2)
          \o <<"-">> \o Pad(n % 100, 2))

\* sqlite3's adapters: a date is bound as its ISO text
Adapt(v) == IF v.t = "date" THEN StrV(Isoformat(v.n)) ELSE v

\* the row that a statement binds from the handler's dados
Bind(tabela, dados) == [c \in Colunas(tabela) |-> Adapt(dados[c])]

\* mutant of UniqueViolation: the UNIQUE constraint of email is not declared
UniqueViolation_none(tabela, t, row, self) == FALSE

\* the row would repeat, in a UNIQUE column, the value of another row
UniqueViolation(tabela, t, row, self) ==
    \E i \in DOMAIN t, c \in UniqueCols(tabela) : i # self /\ t[i][c] = row[c]

\* FOREIGN KEY (...) REFERENCES ...: the columns of TB_TAREFAS that name a row
\* of another table
ForeignKeys == ("projeto_id" :> TB_PROJETOS) @@ ("responsavel_id" :> TB_USUARIOS)

\* mutant of foreign_keys: the connection turns the enforcement on
foreign_keys_on == TRUE

\* PRAGMA foreign_keys of a connection: sqlite3.connect leaves it off and
\* get_db_connection does not set it, so the declarations are not enforced
foreign_keys == FALSE

\* DELETE of a row that a Tarefa references, under an enforced declaration
\* (which names no ON DELETE action)
ForeignKeyViolation(tabela, id, d) ==
    /\ foreign_keys
    /\ \E i \in DOMAIN d[TB_TAREFAS], c \in DOMAIN ForeignKeys :
           ForeignKeys[c] = tabela /\ d[TB_TAREFAS][i][c] = IntV(id)

\* INSERT: AUTOINCREMENT hands out the id after the largest ever used
Sql_insert(t, seq, row) == (seq + 1 :> row) @@ t

\* mutant of Sql_update: only the first bound column is written
Sql_update_partial(tabela, t, id, row) ==
    IF id \in DOMAIN t
    THEN [t EXCEPT ![id] =
            [c \in Colunas(tabela) |->
                IF c \in {"nome", "titulo"} THEN row[c] ELSE t[id][c]]]
    ELSE t

\* UPDATE ... SET every column WHERE id = ?: no row, no change
Sql_update(tabela, t, id, row) ==
    IF id \in DOMAIN t THEN [t EXCEPT ![id] = row] ELSE t

\* DELETE ... WHERE id = ?
Sql_delete(t, id) == [i \in DOMAIN t \ {id} |-> t[i]]

\* SELECT *: the rows, each with its id
Sql_select(t) == {[c \in DOMAIN t[i] \cup {"id"} |->
                     IF c = "id" THEN IntV(i) ELSE t[i][c]] : i \in DOMAIN t}

(***************************************************************************)
(* Requests, responses, the log and the connection of a request.           *)
(***************************************************************************)
NoData == [c \in {} |-> StrV("")]

Request(op, tabela, id, dados) ==
    [op |-> op, tabela |-> tabela, id |-> id, dados |-> dados]

\* jsonify({'mensagem': ...}), status
Json(status, mensagem) ==
    [status |-> status, kind |-> "json", mensagem |-> mensagem,
     erros |-> NoErrors, linhas |-> {}, detalhe |-> ""]
\* jsonify(err.messages), 400
JsonErros(erros) ==
    [status |-> 400, kind |-> "json", mensagem |-> "",
     erros |-> erros, linhas |-> {}, detalhe |-> ""]
\* jsonify([dict(row) for row in rows])
JsonLista(linhas) ==
    [status |-> 200, kind |-> "json", mensagem |-> "",
     erros |-> NoErrors, linhas |-> linhas, detalhe |-> ""]

\* app.run(debug=True)
debug == TRUE

\* an exception that leaves the handler: Flask answers 500 with its own
\* page, which under debug is the debugger's page with the traceback
Unhandled(exc) ==
    [status |-> 500, kind |-> "html", mensagem |-> "",
     erros |-> NoErrors, linhas |-> {}, detalhe |-> IF debug THEN exc ELSE ""]

NoLog == [origem |-> "", texto |-> ""]
\* logging.error(f'Erro de validação: {err.messages}')
LogValidacao == [origem |-> "handler", texto |-> "Erro de validação"]
\* Flask's log_exception, which reaches the root logger's api.log
LogException(exc) == [origem |-> "flask", texto |-> exc]

Inserted == sqlite_sequence[TB_PROJETOS] + sqlite_sequence[TB_TAREFAS]
            + sqlite_sequence[TB_USUARIOS]

(***************************************************************************)
(* The request bodies the model sends: JSON objects, each a complete       *)
(* payload of the entity or one changed in a field, with fields left out,  *)
(* or with an id added.                                                    *)
(***************************************************************************)
With(f, c, v) == (c :> v) @@ [k \in DOMAIN f \ {c} |-> f[k]]
Without(f, D) == [k \in DOMAIN f \ D |-> f[k]]

ProjetoBase ==
    ("nome" :> StrV("P1")) @@ ("descricao" :> StrV("d"))
    @@ ("data_inicio" :> StrV("2024-01-05")) @@ ("data_fim" :> StrV("2024-02-01"))

ProjetoPayloads ==
    {ProjetoBase, NoData,
     With(ProjetoBase, "nome", IntV(5)),
     Without(ProjetoBase, {"nome"}),
     Without(ProjetoBase, {"descricao"}),
     Without(ProjetoBase, {"descricao", "data_inicio", "data_fim"})}
    \cup {With(ProjetoBase, "nome", v) : v \in {StrV("P2"), StrV(""), StrV(Long256)}}
    \cup {With(ProjetoBase, "data_inicio", StrV(d)) : d \in {"05/01/2024", "2024-02-30"}}
    \cup {With(ProjetoBase, "id", IntV(7))}

TarefaBase ==
    ("titulo" :> StrV("T1")) @@ ("descricao" :> StrV("d"))
    @@ ("status" :> StrV("Pendente")) @@ ("prioridade" :> StrV("Alta"))
    @@ ("data_vencimento" :> StrV("2024-03-01"))
    @@ ("projeto_id" :> IntV(1)) @@ ("responsavel_id" :> IntV(1))

TarefaPayloads ==
    {TarefaBase,
     Without(TarefaBase, {"titulo"}),
     Without(TarefaBase, {"status"}),
     Without(TarefaBase, DOMAIN TarefaBase \ {"titulo"})}
    \cup {With(TarefaBase, "status", StrV(x)) :
            x \in {"Concluída", "pendente", "Cancelada"}}
    \cup {With(TarefaBase, "prioridade", StrV(x)) : x \in {"Urgente", "alta"}}
    \cup {With(TarefaBase, "projeto_id", v) : v \in {StrV("1"), StrV("x")}}
    \cup {With(TarefaBase, "id", IntV(7))}

Usuario(e, p) == ("nome" :> StrV("A")) @@ ("email" :> StrV(e)) @@ ("senha" :> StrV(p))

UsuarioPayloads ==
    {Usuario(e, p) : e \in {"a@b.co", "c@d.io", "not-an-email"}, p \in {"123", "secret1"}}
    \cup {Usuario("a@b", "secret1"), NoData}
    \cup {Without(Usuario("a@b.co", "secret1"), {c}) : c \in {"nome", "email", "senha"}}
    \cup {With(Usuario("a@b.co", "secret1"), "id", IntV(7))}

\* the ids of the request paths
Ids == 1..MaxRows

SchemaDe(tabela) ==
    CASE tabela = TB_PROJETOS -> ProjetoSchema
      [] tabela = TB_TAREFAS  -> TarefaSchema
      [] tabela = TB_USUARIOS -> UsuarioSchema

PayloadsDe(tabela) ==
    CASE tabela = TB_PROJETOS -> ProjetoPayloads
      [] tabela = TB_TAREFAS  -> TarefaPayloads
      [] tabela = TB_USUARIOS -> UsuarioPayloads

\* dados = request.get_json() after the try block
RawDados(tabela) == tabela = TB_USUARIOS

\* What a create or update handler computes before it touches the store:
\* the error map of schema.load, the dados it goes on with (what load
\* returned, or for a Usuario the request body again), whether the tuple of
\* dados[...] raises KeyError, and the row the statement binds.  It depends
\* on the request body alone, so it is tabulated over the bodies.
Carga(tabela, data) ==
    LET erros == Messages(SchemaDe(tabela), data)
        dados == IF RawDados(tabela) THEN data ELSE Load(SchemaDe(tabela), data)
        falta == ~(Colunas(tabela) \subseteq DOMAIN dados)
    IN  [erros |-> erros, key_error |-> falta,
         row |-> IF erros # NoErrors \/ falta THEN NoData ELSE Bind(tabela, dados)]

Cargas == [t \in Tabelas |-> [data \in PayloadsDe(t) |-> Carga(t, data)]]

(***************************************************************************)
(* The handlers.  The three entities' handlers differ in schema, table and *)
(* messages, and in that the Usuario handlers bind the raw request body    *)
(* (dados = request.get_json()) where the others bind what load returned.  *)
(***************************************************************************)
\* history: whether the request served now is the one served before it
Historia == repetida' = (req' = req)

\* requests served one at a time: no thread is in the middle of a handler
OneAtATime == UNCHANGED <<threads, locked, commits>>

\* the request leaves the store as it is
Rejected(r, l, c) ==
    /\ resp' = r
    /\ logged' = l
    /\ conn' = c
    /\ UNCHANGED <<db, sqlite_sequence>>

\* mutant of Invalid: the handler connects before it validates, and the
\* early return leaves the connection open
Invalid_after_connect(erros) == Rejected(JsonErros(erros), LogValidacao, "open")

\* except ValidationError: the messages are logged and returned with 400;
\* get_db_connection is called further down, so no connection exists yet
Invalid(erros) == Rejected(JsonErros(erros), LogValidacao, "unopened")

\* schema.load and its except clause; then get_db_connection, the tuple of
\* dados[...] (a KeyError for a column that dados lacks), execute (an
\* IntegrityError for a UNIQUE column), commit, close, 201
Criar(tabela, mensagem, data) ==
    LET c == Cargas[tabela][data] IN
    /\ req' = Request("POST", tabela, 0, data)
    /\ Historia
    /\ OneAtATime
    /\ IF c.erros # NoErrors
       THEN Invalid(c.erros)
       ELSE IF c.key_error
       THEN Rejected(Unhandled("KeyError"), LogException("KeyError"), "open")
       ELSE IF UniqueViolation(tabela, db[tabela], c.row, 0)
       THEN Rejected(Unhandled("sqlite3.IntegrityError"),
                     LogException("sqlite3.IntegrityError"), "open")
       ELSE /\ Inserted < MaxRows
            /\ db' = [db EXCEPT ![tabela] =
                        Sql_insert(@, sqlite_sequence[tabela], c.row)]
            /\ sqlite_sequence' = [sqlite_sequence EXCEPT ![tabela] = @ + 1]
            /\ resp' = Json(201, mensagem)
            /\ logged' = NoLog
            /\ conn' = "closed"

\* the same, with UPDATE ... WHERE id = ? and the default status 200
Atualizar(tabela, mensagem, id, data) ==
    LET c == Cargas[tabela][data] IN
    /\ req' = Request("PUT", tabela, id, data)
    /\ Historia
    /\ OneAtATime
    /\ IF c.erros # NoErrors
       THEN Invalid(c.erros)
       ELSE IF c.key_error
       THEN Rejected(Unhandled("KeyError"), LogException("KeyError"), "open")
       ELSE IF id \in DOMAIN db[tabela]
               /\ UniqueViolation(tabela, db[tabela], c.row, id)
       THEN Rejected(Unhandled("sqlite3.IntegrityError"),
                     LogException("sqlite3.IntegrityError"), "open")
       ELSE /\ db' = [db EXCEPT ![tabela] = Sql_update(tabela, @, id, c.row)]
            /\ resp' = Json(200, mensagem)
            /\ logged' = NoLog
            /\ conn' = "closed"
            /\ UNCHANGED sqlite_sequence

\* mutant of Excluir_status: a DELETE that matches no row answers 404
Excluir_status_404(t, id) == IF id \in DOMAIN t THEN 200 ELSE 404

\* return jsonify(...): the status is Flask's default whatever was deleted
Excluir_status(t, id) == 200

\* no validation: DELETE ... WHERE id = ?, commit, close
Excluir(tabela, mensagem, id) ==
    /\ req' = Request("DELETE", tabela, id, NoData)
    /\ Historia
    /\ OneAtATime
    /\ IF ForeignKeyViolation(tabela, id, db)
       THEN Rejected(Unhandled("sqlite3.IntegrityError"),
                     LogException("sqlite3.IntegrityError"), "open")
       ELSE /\ db' = [db EXCEPT ![tabela] = Sql_delete(@, id)]
            /\ resp' = Json(Excluir_status(db[tabela], id), mensagem)
            /\ logged' = NoLog
            /\ conn' = "closed"
            /\ UNCHANGED sqlite_sequence

\* SELECT * FROM the table, close
Listar(tabela) ==
    /\ req' = Request("GET", tabela, 0, NoData)
    /\ Historia
    /\ OneAtATime
    /\ resp' = JsonLista(Sql_select(db[tabela]))
    /\ logged' = NoLog
    /\ conn' = "closed"
    /\ UNCHANGED <<db, sqlite_sequence>>

(***************************************************************************)
(* The routes of app.py.                                                   *)
(***************************************************************************)
listar_projetos == Listar(TB_PROJETOS)
criar_projeto(data) ==
    Criar(TB_PROJETOS, "Projeto criado com sucesso!", data)
atualizar_projeto(id, data) ==
    Atualizar(TB_PROJETOS, "Projeto atualizado com sucesso!", id, data)
excluir_projeto(id) == Excluir(TB_PROJETOS, "Projeto excluído com sucesso!", id)

listar_tarefas == Listar(TB_TAREFAS)
criar_tarefa(data) ==
    Criar(TB_TAREFAS, "Tarefa criada com sucesso!", data)
atualizar_tarefa(id, data) ==
    Atualizar(TB_TAREFAS, "Tarefa atualizada com sucesso!", id, data)
excluir_tarefa(id) == Excluir(TB_TAREFAS, "Tarefa excluída com sucesso!", id)

listar_usuarios == Listar(TB_USUARIOS)
criar_usuario(data) ==
    Criar(TB_USUARIOS, "Usuário criado com sucesso!", data)
atualizar_usuario(id, data) ==
    Atualizar(TB_USUARIOS, "Usuário atualizado com sucesso!", id, data)
excluir_usuario(id) == Excluir(TB_USUARIOS, "Usuário excluído com sucesso!", id)

boas_vindas ==
    /\ req' = Request("GET", "/", 0, NoData)
    /\ Historia
    /\ OneAtATime
    /\ resp' = Json(200, "Bem-vindo à API Gerenciador de Tarefas e Projetos!")
    /\ logged' = NoLog
    /\ conn' = "unopened"
    /\ UNCHANGED <<db, sqlite_sequence>>

\* the tables as banco_projetos.py creates them, and no request served yet
NoRequest == Request("", "", 0, NoData)
NoResponse == Json(0, "")

\* the two threads that the development server gives two requests that
\* arrive together (app.run starts a threaded server)
Threads == {1, 2}

\* no uncommitted write
NoTx == [i \in {} |-> NoData]

\* a thread that serves nothing (together: its request arrived while another
\* thread was inside a handler)
Idle == [pc |-> "idle", req |-> NoRequest, resp |-> NoResponse,
         logged |-> NoLog, conn |-> "unopened", tx |-> NoTx,
         together |-> FALSE]

NoThreads ==
    /\ threads = [w \in Threads |-> Idle]
    /\ locked = 0
    /\ commits = << >>

Init ==
    /\ db = [t \in Tabelas |-> [i \in {} |-> NoData]]
    /\ sqlite_sequence = [t \in Tabelas |-> 0]
    /\ req = NoRequest
    /\ resp = NoResponse
    /\ logged = NoLog
    /\ conn = "unopened"
    /\ repetida = FALSE
    /\ NoThreads

Next ==
    \/ listar_projetos
    \/ \E data \in ProjetoPayloads : criar_projeto(data)
    \/ \E id \in Ids, data \in ProjetoPayloads : atualizar_projeto(id, data)
    \/ \E id \in Ids : excluir_projeto(id)
    \/ listar_tarefas
    \/ \E data \in TarefaPayloads : criar_tarefa(data)
    \/ \E id \in Ids, data \in TarefaPayloads : atualizar_tarefa(id, data)
    \/ \E id \in Ids : excluir_tarefa(id)
    \/ listar_usuarios
    \/ \E data \in UsuarioPayloads : criar_usuario(data)
    \/ \E id \in Ids, data \in UsuarioPayloads : atualizar_usuario(id, data)
    \/ \E id \in Ids : excluir_usuario(id)
    \/ boas_vindas

Spec == Init /\ [][Next]_vars

(***************************************************************************)
(* Two update requests served together.  Each thread runs the handler line *)
(* by line: schema.load, get_db_connection, execute, commit, close.  The   *)
(* store is SQLite's: execute starts the connection's transaction and      *)
(* takes the database's write lock, which one connection holds at a time;  *)
(* the statement's write stays in the connection until commit, which       *)
(* publishes it and gives the lock back.  A connection that finds the lock *)
(* taken waits for it, and gives up after the timeout of sqlite3.connect.  *)
(***************************************************************************)
Serving(w) == threads[w].pc \notin {"idle", "done"}

Answer(w, r, l, c) ==
    threads' = [threads EXCEPT ![w].pc = "done", ![w].resp = r,
                               ![w].logged = l, ![w].conn = c]

Sequential == UNCHANGED <<req, resp, logged, conn, repetida, sqlite_sequence>>

\* the route matched: the thread enters the handler of PUT /<tabela>/<id>
receive(w, tabela, id, data) ==
    /\ threads[w].pc = "idle"
    /\ threads' = [threads EXCEPT ![w].pc = "load",
                                  ![w].req = Request("PUT", tabela, id, data),
                                  ![w].together =
                                      \E v \in Threads \ {w} : Serving(v)]
    /\ UNCHANGED <<db, locked, commits>>
    /\ Sequential

\* dados = schema.load(request.get_json()), and its except clause
load(w) ==
    LET r == threads[w].req
        c == Cargas[r.tabela][r.dados] IN
    /\ threads[w].pc = "load"
    /\ IF c.erros # NoErrors
       THEN Answer(w, JsonErros(c.erros), LogValidacao, "unopened")
       ELSE threads' = [threads EXCEPT ![w].pc = "connect"]
    /\ UNCHANGED <<db, locked, commits>>
    /\ Sequential

\* conn = get_db_connection()
connect(w) ==
    /\ threads[w].pc = "connect"
    /\ threads' = [threads EXCEPT ![w].pc = "execute", ![w].conn = "open"]
    /\ UNCHANGED <<db, locked, commits>>
    /\ Sequential

\* conn.execute('UPDATE ...', (dados[...], ..., id)): the tuple is built
\* first (a KeyError for a column that dados lacks); the statement then
\* takes the write lock, which is free, and writes into its transaction,
\* or fails on a UNIQUE column with the transaction left open
execute(w) ==
    LET r == threads[w].req
        c == Cargas[r.tabela][r.dados] IN
    /\ threads[w].pc = "execute"
    /\ IF c.key_error
       THEN /\ Answer(w, Unhandled("KeyError"), LogException("KeyError"), "open")
            /\ UNCHANGED locked
       ELSE /\ locked = 0
            /\ locked' = w
            /\ IF r.id \in DOMAIN db[r.tabela]
                  /\ UniqueViolation(r.tabela, db[r.tabela], c.row, r.id)
               THEN Answer(w, Unhandled("sqlite3.IntegrityError"),
                           LogException("sqlite3.IntegrityError"), "open")
               ELSE threads' = [threads EXCEPT ![w].pc = "commit",
                        ![w].tx = Sql_update(r.tabela, db[r.tabela], r.id, c.row)]
    /\ UNCHANGED <<db, commits>>
    /\ Sequential

\* execute while another connection holds the write lock, and holds it for
\* longer than the timeout of sqlite3.connect: "database is locked"
execute_busy(w) ==
    /\ threads[w].pc = "execute"
    /\ ~Cargas[threads[w].req.tabela][threads[w].req.dados].key_error
    /\ locked \notin {0, w}
    /\ Answer(w, Unhandled("sqlite3.OperationalError"),
              LogException("sqlite3.OperationalError"), "open")
    /\ UNCHANGED <<db, locked, commits>>
    /\ Sequential

\* conn.commit(): the transaction's write becomes the table, the lock is free
commit(w) ==
    /\ threads[w].pc = "commit"
    /\ db' = [db EXCEPT ![threads[w].req.tabela] = threads[w].tx]
    /\ locked' = 0
    /\ commits' = Append(commits, w)
    /\ threads' = [threads EXCEPT ![w].pc = "close", ![w].tx = NoTx]
    /\ Sequential

\* conn.close() and return jsonify({'mensagem': ...})
close(w) ==
    /\ threads[w].pc = "close"
    /\ Answer(w, Json(200, CASE threads[w].req.tabela = TB_PROJETOS ->
                                    "Projeto atualizado com sucesso!"
                             [] threads[w].req.tabela = TB_TAREFAS ->
                                    "Tarefa atualizada com sucesso!"
                             [] threads[w].req.tabela = TB_USUARIOS ->
                                    "Usuário atualizado com sucesso!"),
              NoLog, "closed")
    /\ UNCHANGED <<db, locked, commits>>
    /\ Sequential

\* a connection that its handler left open is closed when the interpreter
\* frees it: its open transaction is rolled back and its lock given back
finalize(w) ==
    /\ threads[w].pc = "done"
    /\ threads[w].conn = "open"
    /\ threads' = [threads EXCEPT ![w].conn = "finalized"]
    /\ locked' = IF locked = w THEN 0 ELSE locked
    /\ UNCHANGED <<db, commits>>
    /\ Sequential

\* the store when the two requests arrive: a Projeto, a Tarefa and two
\* Usuarios were created, one request after the other
Seeded ==
    [t \in Tabelas |->
        CASE t = TB_PROJETOS ->
               Sql_insert(NoTx, 0, Cargas[t][ProjetoBase].row)
          [] t = TB_TAREFAS ->
               Sql_insert(NoTx, 0, Cargas[t][TarefaBase].row)
          [] t = TB_USUARIOS ->
               Sql_insert(
                   Sql_insert(NoTx, 0,
                              Cargas[t][Usuario("a@b.co", "secret1")].row),
                   1, Cargas[t][Usuario("c@d.io", "secret1")].row)]

InitConc ==
    /\ db = Seeded
    /\ sqlite_sequence = [t \in Tabelas |-> Cardinality(DOMAIN db[t])]
    /\ req = NoRequest
    /\ resp = NoResponse
    /\ logged = NoLog
    /\ conn = "unopened"
    /\ repetida = FALSE
    /\ NoThreads

NextConc ==
    \/ \E w \in Threads, t \in Tabelas, id \in Ids :
           \E data \in PayloadsDe(t) : receive(w, t, id, data)
    \/ \E w \in Threads : load(w)
    \/ \E w \in Threads : connect(w)
    \/ \E w \in Threads : execute(w)
    \/ \E w \in Threads : execute_busy(w)
    \/ \E w \in Threads : commit(w)
    \/ \E w \in Threads : close(w)
    \/ \E w \in Threads : finalize(w)

SpecConc == InitConc /\ [][NextConc]_vars

(***************************************************************************)
(* The claims.  What a claim quotes (messages, required fields, allowed    *)
(* values) is written out here as the claim has it, apart from the model.  *)
(***************************************************************************)
MensagemCriado(tabela) ==
    CASE tabela = TB_PROJETOS -> "Projeto criado com sucesso!"
      [] tabela = TB_TAREFAS  -> "Tarefa criada com sucesso!"
      [] tabela = TB_USUARIOS -> "Usuário criado com sucesso!"
MensagemAtualizado(tabela) ==
    CASE tabela = TB_PROJETOS -> "Projeto atualizado com sucesso!"
      [] tabela = TB_TAREFAS  -> "Tarefa atualizada com sucesso!"
      [] tabela = TB_USUARIOS -> "Usuário atualizado com sucesso!"
MensagemExcluido(tabela) ==
    CASE tabela = TB_PROJETOS -> "Projeto excluído com sucesso!"
      [] tabela = TB_TAREFAS  -> "Tarefa excluída com sucesso!"
      [] tabela = TB_USUARIOS -> "Usuário excluído com sucesso!"

\* the request r carries a body that passes its entity's validator
PassesValidator(r) ==
    r.tabela \in Tabelas /\ Messages(SchemaDe(r.tabela), r.dados) = NoErrors

\* C1: a create whose payload passes the validator (optional fields may be
\* left out) answers 201 with the entity's confirmation and adds exactly one
\* row; listing the table then shows a record, under the id the store
\* assigned, whose fields equal every submitted field.
C1_CreateStoresEverySubmittedField ==
    [][(req'.op = "POST" /\ PassesValidator(req')) =>
        LET t == req'.tabela
            novas == Sql_select(db'[t]) \ Sql_select(db[t])
        IN  /\ resp' = Json(201, MensagemCriado(t))
            /\ Cardinality(Sql_select(db'[t])) = Cardinality(Sql_select(db[t])) + 1
            /\ \E r \in novas :
                /\ r["id"] = IntV(sqlite_sequence[t] + 1)
                /\ \A c \in DOMAIN req'.dados : r[c] = req'.dados[c]]_vars

\* the statement of the request r is one the store rejects in the state
\* before it: its body is valid and complete, and it would repeat the email
\* of another stored Usuario
StoreRejects(r, before) ==
    /\ r.op \in {"POST", "PUT"}
    /\ PassesValidator(r)
    /\ Colunas(r.tabela) \subseteq DOMAIN r.dados
    /\ r.op = "PUT" => r.id \in DOMAIN before[r.tabela]
    /\ \E i \in DOMAIN before[r.tabela] :
        /\ r.op = "PUT" => i # r.id
        /\ r.tabela = TB_USUARIOS
        /\ before[r.tabela][i]["email"] = r.dados["email"]

\* C2: when the store rejects the statement of a create or update, the
\* handler answers 500 with the message 'Erro interno do servidor', the
\* error is in the server log and none of it is in the response.
C2_StorageErrorAnswersGenericMessage ==
    [][StoreRejects(req', db) =>
        /\ resp' = Json(500, "Erro interno do servidor")
        /\ logged' # NoLog]_vars

\* the fields the claim names as required
RequiredByClaim(tabela) ==
    CASE tabela = TB_PROJETOS -> {"nome"}
      [] tabela = TB_TAREFAS  -> {"titulo"}
      [] tabela = TB_USUARIOS -> {"nome", "email", "senha"}
      [] OTHER -> {}

\* C3: a create whose payload lacks a required field answers 400 with an
\* error map that has an entry for each required field that is missing.
C3_MissingRequiredFieldIs400 ==
    (req.op = "POST" /\ RequiredByClaim(req.tabela) \ DOMAIN req.dados # {}) =>
        /\ resp.status = 400
        /\ RequiredByClaim(req.tabela) \ DOMAIN req.dados \subseteq DOMAIN resp.erros

\* a create of a Usuario with nome and senha but no email was answered 400
\* with an entry for email
C3_Witness ==
    /\ req.op = "POST" /\ req.tabela = TB_USUARIOS
    /\ DOMAIN req.dados = {"nome", "senha"}
    /\ resp.status = 400
    /\ "email" \in DOMAIN resp.erros

\* C4: an update with a valid payload against an id that has no row answers
\* the 200 success response and leaves every table as it was.
C4_UpdateOfMissingIdSucceeds ==
    [][(req'.op = "PUT" /\ PassesValidator(req')
        /\ req'.id \notin DOMAIN db[req'.tabela]) =>
        /\ resp' = Json(200, MensagemAtualizado(req'.tabela))
        /\ db' = db]_vars

\* C5: every delete answers the 200 success message, and a delete that
\* repeats the delete before it (same entity, same id) leaves the tables
\* as that one left them.
C5_DeleteIsIdempotent ==
    [][req'.op = "DELETE" =>
        /\ resp' = Json(200, MensagemExcluido(req'.tabela))
        /\ req'.id \notin DOMAIN db'[req'.tabela]
        /\ (req.op = "DELETE" /\ req.tabela = req'.tabela /\ req.id = req'.id)
            => (db' = db /\ resp' = resp)]_vars

\* the delete of an id that the store had handed out was served twice in a
\* row, and answered 200
C5_Witness ==
    /\ req.op = "DELETE" /\ repetida
    /\ req.id <= sqlite_sequence[req.tabela]
    /\ resp = Json(200, MensagemExcluido(req.tabela))

\* C6 as claimed: a create or update whose payload is valid but for an added
\* 'id' field is accepted.
C6_ClientIdIsIgnored ==
    (/\ req.op \in {"POST", "PUT"}
     /\ "id" \in DOMAIN req.dados
     /\ Colunas(req.tabela) \subseteq DOMAIN req.dados
     /\ PassesValidator([req EXCEPT !.dados = Without(req.dados, {"id"})]))
    => resp.status \in {200, 201}

\* C6 as amended: a create or update whose body carries an 'id' field is
\* answered 400 with an entry for 'id' and writes nothing; the row a create
\* adds has the id the store assigns, and the only row an update writes is
\* the one that the path names.
C6_ClientIdNeverDrivesTheWrite ==
    [][/\ (req'.op \in {"POST", "PUT"} /\ "id" \in DOMAIN req'.dados) =>
            /\ resp'.status = 400
            /\ "id" \in DOMAIN resp'.erros
            /\ db' = db
       /\ (req'.op = "POST" /\ resp'.status = 201) =>
            DOMAIN db'[req'.tabela] \ DOMAIN db[req'.tabela]
                = {sqlite_sequence[req'.tabela] + 1}
       /\ (req'.op = "PUT" /\ resp'.status = 200) =>
            \A i \in DOMAIN db[req'.tabela] \ {req'.id} :
                db'[req'.tabela][i] = db[req'.tabela][i]]_vars

\* a create whose body is a complete Projeto plus an id was answered 400
\* with an entry for id
C6_Witness ==
    /\ req.op = "POST" /\ req.tabela = TB_PROJETOS
    /\ DOMAIN req.dados = Colunas(TB_PROJETOS) \cup {"id"}
    /\ resp.status = 400
    /\ DOMAIN resp.erros = {"id"}

\* the values the claim allows
StatusByClaim == {"Pendente", "Em andamento", "Concluída"}
PrioridadeByClaim == {"Baixa", "Média", "Alta"}

\* C7: a create of a Tarefa whose status is outside the allowed set (exact
\* match), or whose prioridade is, answers 400.
C7_EnumOutsideAllowedSetIs400 ==
    (/\ req.op = "POST" /\ req.tabela = TB_TAREFAS
     /\ \/ /\ "status" \in DOMAIN req.dados
           /\ req.dados["status"].s \notin StatusByClaim
        \/ /\ "prioridade" \in DOMAIN req.dados
           /\ req.dados["prioridade"].s \notin PrioridadeByClaim)
    => resp.status = 400

\* a create of a Tarefa with status 'pendente', which differs from an
\* allowed value in case only, was answered 400 with an entry for status
C7_Witness ==
    /\ req.op = "POST" /\ req.tabela = TB_TAREFAS
    /\ "status" \in DOMAIN req.dados
    /\ req.dados["status"] = StrV("pendente")
    /\ resp.status = 400
    /\ "status" \in DOMAIN resp.erros

\* the addresses of the model's payloads that are no e-mail address
MalformedByClaim == {"not-an-email", "a@b"}
BadEmail(d) == "email" \in DOMAIN d /\ d["email"].s \in MalformedByClaim
BadSenha(d) == "senha" \in DOMAIN d /\ Len(d["senha"].s) < 6

C9_EmailIsUnique ==
    \A i, j \in DOMAIN db[TB_USUARIOS] :
        i # j => db[TB_USUARIOS][i]["email"] # db[TB_USUARIOS][j]["email"]

\* two Usuarios are stored, and the update of one to the email of the other
\* was just refused
C9_Witness ==
    /\ Cardinality(DOMAIN db[TB_USUARIOS]) = 2
    /\ req.op = "PUT" /\ req.tabela = TB_USUARIOS
    /\ req.id \in DOMAIN db[TB_USUARIOS]
    /\ "email" \in DOMAIN req.dados
    /\ \E j \in DOMAIN db[TB_USUARIOS] \ {req.id} :
            db[TB_USUARIOS][j]["email"] = req.dados["email"]
    /\ resp.status = 500

\* the update of the request r, answered 200, of a row that existed before
UpdatedExisting(r, rs, before) ==
    r.op = "PUT" /\ rs.status = 200 /\ r.id \in DOMAIN before[r.tabela]

\* the other rows of the updated table, and the other tables, are as before
UpdateFrame(r, before, after) ==
    /\ DOMAIN after[r.tabela] = DOMAIN before[r.tabela]
    /\ \A i \in DOMAIN before[r.tabela] \ {r.id} :
            after[r.tabela][i] = before[r.tabela][i]
    /\ \A t \in Tabelas \ {r.tabela} : after[t] = before[t]

\* C10 as claimed: a successful update of an existing row leaves in every
\* column of the row the value the payload has for it, and changes no
\* other row of any table.
C10_UpdateWritesPayloadValues ==
    [][UpdatedExisting(req', resp', db) =>
        /\ \A c \in Colunas(req'.tabela) :
                db'[req'.tabela][req'.id][c] = req'.dados[c]
        /\ UpdateFrame(req', db, db')]_vars

\* the stored value w is the submitted value v as a column of type tipo
\* holds it: a string as submitted, an integer as the number that the
\* submitted number or numeral denotes, a date as the yyyy-mm-dd text of
\* the submitted day
StoredForm(tipo, v, w) ==
    CASE tipo = "Integer" ->
            w.t = "int" /\ w.n = (IF v.t = "int" THEN v.n ELSE ToInt(Chars(v.s)))
      [] tipo = "Date" ->
            /\ w.t = "str" /\ Len(Chars(w.s)) = 10
            /\ Split(Chars(w.s), "-") =
                 [i \in 1..3 |->
                    LET p == Split(Chars(v.s), "-")[i] IN
                    IF Len(p) = 1 THEN <<"0">> \o p ELSE p]
      [] OTHER -> w = v

\* C10 as amended: a successful update of an existing row leaves in every
\* column of the row the payload's value in the form the column holds (a
\* numeral given for an integer field as the integer, a date as its
\* yyyy-mm-dd text, a string as given), so that no column keeps its old
\* value unless the payload repeats it; the row keeps its id, and no other
\* row of any table changes.
C10_UpdateWritesEveryColumn ==
    [][UpdatedExisting(req', resp', db) =>
        /\ DOMAIN req'.dados = Colunas(req'.tabela)
        /\ \A c \in Colunas(req'.tabela) :
                StoredForm(FieldOf(SchemaDe(req'.tabela), c).tipo,
                           req'.dados[c], db'[req'.tabela][req'.id][c])
        /\ UpdateFrame(req', db, db')]_vars

\* a Tarefa was updated, with 200, by a payload that gives projeto_id as
\* the numeral "1"; the row now holds the payload's status and the integer
\* 1, and a row of another table is stored beside it
C10_Witness ==
    /\ req.op = "PUT" /\ req.tabela = TB_TAREFAS /\ resp.status = 200
    /\ req.id \in DOMAIN db[TB_TAREFAS]
    /\ req.dados["projeto_id"] = StrV("1")
    /\ db[TB_TAREFAS][req.id]["projeto_id"] = IntV(1)
    /\ db[TB_TAREFAS][req.id]["status"] = req.dados["status"]
    /\ DOMAIN db[TB_PROJETOS] # {}

\* the threads v and w served, together, two update requests that pass the
\* validator and name the same row, which exists
SameRowTogether(v, w) ==
    /\ v # w
    /\ threads[v].pc = "done" /\ threads[w].pc = "done"
    /\ threads[v].together \/ threads[w].together
    /\ threads[v].req.tabela = threads[w].req.tabela
    /\ threads[v].req.id = threads[w].req.id
    /\ threads[v].req.id \in DOMAIN Seeded[threads[v].req.tabela]
    /\ PassesValidator(threads[v].req) /\ PassesValidator(threads[w].req)

\* the row holds, in every column, the stored form of the payload's value
HoldsPayload(tabela, dados, row) ==
    /\ DOMAIN dados = Colunas(tabela)
    /\ \A c \in Colunas(tabela) :
           StoredForm(FieldOf(SchemaDe(tabela), c).tipo, dados[c], row[c])

\* C11: when two valid update requests for the same existing row are served
\* concurrently, both answer with success and the row ends equal, in every
\* column, to the payload of the request that committed last.
C11_ConcurrentUpdatesBothSucceedLastCommitWins ==
    \A v, w \in Threads :
        SameRowTogether(v, w) =>
            /\ threads[v].resp.status = 200 /\ threads[w].resp.status = 200
            /\ Len(commits) = 2
            /\ LET r == threads[commits[2]].req
               IN  HoldsPayload(r.tabela, r.dados, db[r.tabela][r.id])

\* what does hold of two such requests: whenever both answered 200 the row
\* is the payload of the later commit, and no row of the store is ever
\* anything but a seeded row or, whole, the payload of one request
C11_CommittedRowsAreWholePayloads ==
    /\ \A v, w \in Threads :
          /\ SameRowTogether(v, w)
          /\ threads[v].resp.status = 200 /\ threads[w].resp.status = 200
          => /\ Len(commits) = 2
             /\ LET r == threads[commits[2]].req
                IN  HoldsPayload(r.tabela, r.dados, db[r.tabela][r.id])
    /\ \A t \in Tabelas : \A i \in DOMAIN db[t] :
          \/ db[t][i] = Seeded[t][i]
          \/ \E w \in Threads :
                /\ threads[w].req.tabela = t /\ threads[w].req.id = i
                /\ HoldsPayload(t, threads[w].req.dados, db[t][i])

\* C12: a delete of a Projeto or of a Usuario is never blocked by the
\* Tarefas that reference the row and never cascades: it answers 200 with
\* the entity's confirmation, the row is gone, and every row of TB_TAREFAS,
\* with its projeto_id and responsavel_id, is as it was.
C12_DeleteNeitherBlocksNorCascades ==
    [][req'.op = "DELETE" /\ req'.tabela \in {TB_PROJETOS, TB_USUARIOS} =>
        /\ resp' = Json(200, MensagemExcluido(req'.tabela))
        /\ req'.id \notin DOMAIN db'[req'.tabela]
        /\ db'[TB_TAREFAS] = db[TB_TAREFAS]]_vars

\* a Projeto that the store once held was deleted with 200, and a Tarefa
\* still names it in projeto_id
C12_Witness ==
    /\ req.op = "DELETE" /\ req.tabela = TB_PROJETOS /\ resp.status = 200
    /\ req.id <= sqlite_sequence[TB_PROJETOS]
    /\ req.id \notin DOMAIN db[TB_PROJETOS]
    /\ \E i \in DOMAIN db[TB_TAREFAS] :
           db[TB_TAREFAS][i]["projeto_id"] = IntV(req.id)

\* C13: every handler that opens a connection releases it before the
\* request ends, on every path: a request that reaches the store leaves its
\* connection closed, also when its statement fails.
C13_ConnectionReleasedOnEveryPath ==
    /\ conn # "open"
    /\ req.tabela \in Tabelas /\ resp.status # 400 => conn = "closed"

\* C14: validation precedes persistence: a create or update whose body fails
\* validation answers 400 with the validator's messages, opens no connection
\* and leaves the three tables and their id counters as they were; and a 400
\* comes of nothing but a body that fails validation.
C14_InvalidBodyNeverReachesTheStore ==
    [][req'.op \in {"POST", "PUT"}
       /\ (resp'.status = 400
           \/ Cargas[req'.tabela][req'.dados].erros # NoErrors) =>
        /\ Cargas[req'.tabela][req'.dados].erros # NoErrors
        /\ resp' = JsonErros(Cargas[req'.tabela][req'.dados].erros)
        /\ conn' = "unopened"
        /\ db' = db
        /\ sqlite_sequence' = sqlite_sequence]_vars

\* an update of a stored row was answered 400, with no connection opened
C14_Witness ==
    /\ req.op = "PUT" /\ resp.status = 400 /\ conn = "unopened"
    /\ req.id \in DOMAIN db[req.tabela]
    /\ ~PassesValidator(req)

====
